---------------------------- MODULE Spec2Model ----------------------------
(***************************************************************************)
(* A model of manifolio's Kelly bet-sizing core:                           *)
(*   src/manifolio-ui/lib/calculate.ts  (naive Kelly, D, findRoot, the     *)
(*                                       two liquidity-aware optimizers)   *)
(*   src/unnamed/part_000               (the payout distribution engine,   *)
(*                                       imported as "./probability")      *)
(*                                                                         *)
(* NUMBERS.  A JavaScript number is modelled as a record [k, v]:           *)
(*   k = "fin": the finite value v / Scale (fixed point, 6 decimals),      *)
(*   k = "inf": +Infinity (v = 1) or -Infinity (v = -1),                   *)
(*   k = "nan": NaN,                                                       *)
(*   k = "undefined": the value undefined, which converts to NaN in        *)
(*                    arithmetic and in comparisons.                       *)
(* Every operation rounds its exact result to the grid, as IEEE doubles    *)
(* round theirs to 53 bits; the grid is coarser, so low-order digits of a  *)
(* long computation differ from the program's.  Zero is unsigned (+0).     *)
(* TLC's integers are 32 bits wide and TLC stops with an error on          *)
(* overflow, so a finite value stays below 2147 in magnitude or the run    *)
(* is rejected: nothing is silently wrapped or saturated.                  *)
(***************************************************************************)
EXTENDS Integers, Sequences, FiniteSets, TLC

Scale == 10^6

Fin(v) == [k |-> "fin", v |-> v]
NaN == [k |-> "nan", v |-> 0]
Inf(s) == [k |-> "inf", v |-> s]
Undefined == [k |-> "undefined", v |-> 0]
FromInt(n) == Fin(n * Scale)
\* The decimal n/d, for d dividing Scale (1/2, 1/10, 1/1000, ...).
Ratio(n, d) == Fin(n * (Scale \div d))

Zero == FromInt(0)
One == FromInt(1)
Two == FromInt(2)

\* NaN, or a value that converts to NaN where a number is needed.
IsNaN(a) == a.k \notin {"fin", "inf"}
IsFin(a) == a.k = "fin"
Sgn(n) == IF n > 0 THEN 1 ELSE IF n < 0 THEN -1 ELSE 0
AbsInt(n) == IF n < 0 THEN -n ELSE n

\* Unary minus.
Neg(a) == IF IsNaN(a) THEN NaN ELSE [k |-> a.k, v |-> -a.v]

\* a + b: Infinity + -Infinity is NaN.
Add(a, b) ==
  IF IsNaN(a) \/ IsNaN(b) THEN NaN
  ELSE IF a.k = "inf" THEN (IF b.k = "fin" \/ b.v = a.v THEN a ELSE NaN)
  ELSE IF b.k = "inf" THEN b
  ELSE Fin(a.v + b.v)

Sub(a, b) == Add(a, Neg(b))

\* |x| * |y| / Scale rounded to nearest, computed in 3-digit limbs so that no
\* intermediate product leaves 32 bits while the result fits.
MulMag(x, y) ==
  LET x1 == x \div 1000
      x0 == x % 1000
      y1 == y \div 1000
      y0 == y % 1000
      m == x1 * y0 + x0 * y1
      low == (m % 1000) * 1000 + x0 * y0
      q == x1 * y1 + (m \div 1000) + (low \div Scale)
  IN IF 2 * (low % Scale) >= Scale THEN q + 1 ELSE q

\* a * b: 0 * Infinity is NaN.
Mul(a, b) ==
  IF IsNaN(a) \/ IsNaN(b) THEN NaN
  ELSE IF a.k = "inf" \/ b.k = "inf"
    THEN (IF Sgn(a.v) * Sgn(b.v) = 0 THEN NaN ELSE Inf(Sgn(a.v) * Sgn(b.v)))
  ELSE Fin(Sgn(a.v) * Sgn(b.v) * MulMag(AbsInt(a.v), AbsInt(b.v)))

\* Long division: n more decimal digits of r / y appended to the quotient q.
RECURSIVE DivDigits(_, _, _, _)
DivDigits(q, r, y, n) ==
  IF n = 0 THEN (IF 2 * r >= y THEN q + 1 ELSE q)
  ELSE DivDigits(q * 10 + ((r * 10) \div y), (r * 10) % y, y, n - 1)

\* |x| * Scale / |y| rounded to nearest.
DivMag(x, y) == DivDigits(x \div y, x % y, y, 6)

\* a / b: x / 0 is +-Infinity, 0 / 0 and Infinity / Infinity are NaN.
Div(a, b) ==
  IF IsNaN(a) \/ IsNaN(b) THEN NaN
  ELSE IF a.k = "inf"
    THEN (IF b.k = "inf" THEN NaN ELSE Inf(IF b.v < 0 THEN -a.v ELSE a.v))
  ELSE IF b.k = "inf" THEN Zero
  ELSE IF b.v = 0 THEN (IF a.v = 0 THEN NaN ELSE Inf(Sgn(a.v)))
  ELSE Fin(Sgn(a.v) * Sgn(b.v) * DivMag(AbsInt(a.v), AbsInt(b.v)))

\* a < b: every comparison with NaN is false.
Lt(a, b) ==
  /\ ~IsNaN(a)
  /\ ~IsNaN(b)
  /\ IF a.k = "inf" THEN a.v < 0 /\ b # a
     ELSE IF b.k = "inf" THEN b.v > 0
     ELSE a.v < b.v

Gt(a, b) == Lt(b, a)
Le(a, b) == ~IsNaN(a) /\ ~IsNaN(b) /\ ~Lt(b, a)

\* Math.abs, Math.min, Math.max (NaN if an argument is NaN).
Abs(a) == IF IsNaN(a) THEN NaN ELSE [k |-> a.k, v |-> AbsInt(a.v)]
Min(a, b) == IF IsNaN(a) \/ IsNaN(b) THEN NaN ELSE IF Lt(a, b) THEN a ELSE b
Max(a, b) == IF IsNaN(a) \/ IsNaN(b) THEN NaN ELSE IF Lt(b, a) THEN a ELSE b

\* Whether r * r <= v * Scale, in limbs as in MulMag.
SqLe(r, v) ==
  LET r1 == r \div 1000
      r0 == r % 1000
      m == 2 * r1 * r0
      low == (m % 1000) * 1000 + r0 * r0
      q == r1 * r1 + (m \div 1000) + (low \div Scale)
  IN q < v \/ (q = v /\ low % Scale = 0)

\* The largest r in lo..hi with r * r <= v * Scale (bisection).
RECURSIVE SqrtSearch(_, _, _)
SqrtSearch(lo, hi, v) ==
  IF lo >= hi THEN lo
  ELSE LET mid == (lo + hi + 1) \div 2
       IN IF SqLe(mid, v) THEN SqrtSearch(mid, hi, v)
          ELSE SqrtSearch(lo, mid - 1, v)

\* Math.sqrt: NaN below zero; rounded down to the grid.
Sqrt(a) ==
  IF IsNaN(a) THEN NaN
  ELSE IF a.k = "inf" THEN (IF a.v > 0 THEN a ELSE NaN)
  ELSE IF a.v < 0 THEN NaN
  ELSE Fin(SqrtSearch(0, 46340999, a.v))

\* A test that takes only 0 for falsy.
Falsy_ZeroOnly(a) == IsFin(a) /\ a.v = 0

\* !a for a number or undefined: 0, NaN and undefined are falsy.
Falsy(a) == IsNaN(a) \/ (IsFin(a) /\ a.v = 0)

\* a ?? b
Coalesce(a, b) == IF a = Undefined THEN b ELSE a


(***************************************************************************)
(* STATE.  One call of one exported function is in progress at a time.     *)
(*   findRoot's frame:      f, lowerBound, upperBound, iterations, x, i,   *)
(*                          rpc (position), rret (returned value), rexit   *)
(*                          (which return statement was taken)             *)
(*   memo                   the graph of a black-box f, as far as sampled  *)
(*   steps                  history: what each loop iteration computed     *)
(*   bets                   the positions passed to the distribution engine*)
(*   pmfOut, cdfOut         per method, what computePayoutDistribution and *)
(*                          computeCumulativeDistribution returned         *)
(*   call                   the exported function of calculate.ts called   *)
(*   kpc                    its position: "start", the name of the root it *)
(*                          is finding, or "done"                          *)
(*   args                   its arguments                                  *)
(*   market                 the market its marketSlug names: the           *)
(*                          probability the snapshot reports and the pool  *)
(*   startingMarketProb, naiveKelly, optimalBets                           *)
(*                          its local constants of these names             *)
(*   ret                    what it returned                               *)
(*   simCalls, rootCalls    how often it called the bet simulator and      *)
(*                          findRoot                                       *)
(***************************************************************************)
VARIABLES f, lowerBound, upperBound, iterations, x, i, rpc, rret, rexit,
          memo, steps,
          bets, pmfOut, cdfOut,
          call, kpc, args, market, startingMarketProb, naiveKelly,
          optimalBets, ret, simCalls, rootCalls

rootVars == <<f, lowerBound, upperBound, iterations, x, i, rpc, rret, rexit,
              memo, steps>>

pmfVars == <<bets, pmfOut, cdfOut>>

kellyVars == <<call, kpc, args, market, startingMarketProb, naiveKelly,
               optimalBets, ret, simCalls, rootCalls>>

vars == <<rootVars, pmfVars, kellyVars>>

----------------------------------------------------------------------------
(* Bounds of the model. *)

\* findRoot is called with every iteration cap in 0..MaxIter (and the default).
MaxIter == 3
\* The distribution engine is called with every list of at most MaxBets positions.
MaxBets == 3

----------------------------------------------------------------------------
(* part_000 (./probability): the payout distribution engine.               *)
(* A Map<number, number> is the sequence of its entries [key, val] in      *)
(* insertion order.                                                        *)

\* Map.prototype.has.
MapHas(m, key) == \E j \in 1..Len(m) : m[j].key = key

\* `m.get(key) || 0`: 0 for a missing key and for a falsy value.
GetOrZero(m, key) ==
  IF MapHas(m, key)
  THEN LET val == (CHOOSE e \in {m[j] : j \in 1..Len(m)} : e.key = key).val
       IN IF Falsy(val) THEN Zero ELSE val
  ELSE Zero

\* Map.prototype.set: a present key keeps its place and takes the new value.
MapSet(m, key, val) ==
  IF MapHas(m, key)
  THEN [j \in 1..Len(m) |->
          IF m[j].key = key THEN [key |-> key, val |-> val] ELSE m[j]]
  ELSE Append(m, [key |-> key, val |-> val])

\* new Map(entries): the entries are set in order, a repeated key overwriting.
RECURSIVE MapFromEntries(_, _)
MapFromEntries(entries, m) ==
  IF entries = <<>> THEN m
  ELSE MapFromEntries(Tail(entries), MapSet(m, Head(entries)[1], Head(entries)[2]))

\* convolveDistributions, lines 27-37, from the k-th pair of entries on.
RECURSIVE ConvolveFrom(_, _, _, _)
ConvolveFrom(pmf1, pmf2, k, result) ==
  IF k >= Len(pmf1) * Len(pmf2) THEN result
  ELSE LET e1 == pmf1[(k \div Len(pmf2)) + 1]
           e2 == pmf2[(k % Len(pmf2)) + 1]
           combinedPayout == Add(e1.key, e2.key)
           combinedProb == Mul(e1.val, e2.val)
       IN ConvolveFrom(pmf1, pmf2, k + 1,
            MapSet(result, combinedPayout,
                   Add(GetOrZero(result, combinedPayout), combinedProb)))

convolveDistributions(pmf1, pmf2) == ConvolveFrom(pmf1, pmf2, 0, <<>>)

\* The inner loops of cartesianProduct, lines 46-50: every result extended by
\* every entry, results outermost.
RECURSIVE ExtendAll(_, _, _)
ExtendAll(results, entries, k) ==
  IF k >= Len(results) * Len(entries) THEN <<>>
  ELSE <<Append(results[(k \div Len(entries)) + 1], entries[(k % Len(entries)) + 1])>>
       \o ExtendAll(results, entries, k + 1)

RECURSIVE CartesianFrom(_, _)
CartesianFrom(allEntries, results) ==
  IF allEntries = <<>> THEN results
  ELSE CartesianFrom(Tail(allEntries), ExtendAll(results, Head(allEntries), 0))

cartesianProduct(allEntries) == CartesianFrom(allEntries, << <<>> >>)

\* The two branches of a position: it pays nothing, or it pays out.
Branches(bet) ==
  << [payout |-> Zero, probability |-> Sub(One, bet.probability)],
     [payout |-> bet.payout, probability |-> bet.probability] >>

\* outcome.reduce((acc, o) => acc * o.probability, 1)
RECURSIVE ReduceProbability(_, _)
ReduceProbability(outcome, acc) ==
  IF outcome = <<>> THEN acc
  ELSE ReduceProbability(Tail(outcome), Mul(acc, Head(outcome).probability))

\* outcome.reduce((acc, o) => acc + o.payout, 0)
RECURSIVE ReducePayout(_, _)
ReducePayout(outcome, acc) ==
  IF outcome = <<>> THEN acc
  ELSE ReducePayout(Tail(outcome), Add(acc, Head(outcome).payout))

\* Lines 61-78 and 142-159: every combination of branches with its probability
\* and its total payout.
OutcomeProbsAndPayouts(bs) ==
  LET outcomes == cartesianProduct([j \in 1..Len(bs) |-> Branches(bs[j])])
  IN [j \in 1..Len(outcomes) |->
        [probability |-> ReduceProbability(outcomes[j], One),
         payout |-> ReducePayout(outcomes[j], Zero)]]

\* Lines 80-86: masses of equal payouts are added up.
RECURSIVE AccumulatePMF(_, _)
AccumulatePMF(outcomes, combinedDistribution) ==
  IF outcomes = <<>> THEN combinedDistribution
  ELSE AccumulatePMF(Tail(outcomes),
         MapSet(combinedDistribution, Head(outcomes).payout,
                Add(GetOrZero(combinedDistribution, Head(outcomes).payout),
                    Head(outcomes).probability)))

computePayoutPMFCartesian(bs) == AccumulatePMF(OutcomeProbsAndPayouts(bs), <<>>)

\* Lines 99-108, from the given running distribution on.
RECURSIVE ConvolutionFrom(_, _)
ConvolutionFrom(bs, combinedDistribution) ==
  IF bs = <<>> THEN combinedDistribution
  ELSE LET bet == Head(bs)
           betDistribution ==
             MapFromEntries(<< <<Zero, Sub(One, bet.probability)>>,
                               <<bet.payout, bet.probability>> >>, <<>>)
       IN ConvolutionFrom(Tail(bs),
            convolveDistributions(combinedDistribution, betDistribution))

computePayoutPMFConvolution(bs) ==
  ConvolutionFrom(bs, MapFromEntries(<< <<Zero, One>> >>, <<>>))

computePayoutDistribution(bs, method) ==
  IF method = "convolution"
  THEN computePayoutPMFConvolution(bs)
  ELSE computePayoutPMFCartesian(bs)

\* s with e inserted after the last element whose payout is not greater.
RECURSIVE InsertByPayout(_, _)
InsertByPayout(s, e) ==
  IF s = <<>> THEN <<e>>
  ELSE IF Lt(e.payout, Head(s).payout) THEN <<e>> \o s
  ELSE <<Head(s)>> \o InsertByPayout(Tail(s), e)

\* Sort without the sort.
SortByPayout_Unsorted(s, acc) == acc \o s

\* Array.prototype.sort((a, b) => a.payout - b.payout): ascending and stable.
RECURSIVE SortByPayout(_, _)
SortByPayout(s, acc) ==
  IF s = <<>> THEN acc
  ELSE SortByPayout(Tail(s), InsertByPayout(acc, Head(s)))

\* Lines 163-168: the running total of probability, keyed by payout.
RECURSIVE AccumulateCDF(_, _, _)
AccumulateCDF(outcomes, cumulativeProb, cumulativeDistribution) ==
  IF outcomes = <<>> THEN cumulativeDistribution
  ELSE LET total == Add(cumulativeProb, Head(outcomes).probability)
       IN AccumulateCDF(Tail(outcomes), total,
            MapSet(cumulativeDistribution, Head(outcomes).payout, total))

computeCumulativeDistributionCartesian(bs) ==
  AccumulateCDF(SortByPayout(OutcomeProbsAndPayouts(bs), <<>>), Zero, <<>>)

\* What a call returned: nothing yet, a map, or a thrown Error.
NoResult == [status |-> "none", map |-> <<>>]
Returned(m) == [status |-> "ok", map |-> m]
Thrown == [status |-> "error", map |-> <<>>]

Methods == {"convolution", "cartesian"}

\* No call of the distribution engine is in progress.
PmfIdle ==
  /\ bets = <<>>
  /\ pmfOut = [m \in Methods |-> NoResult]
  /\ cdfOut = [m \in Methods |-> NoResult]

\* A call computePayoutDistribution(bets, method).
CallPayoutDistribution(method) ==
  /\ pmfOut[method].status = "none"
  /\ pmfOut' = [pmfOut EXCEPT ![method] =
                  Returned(computePayoutDistribution(bets, method))]
  /\ UNCHANGED <<bets, cdfOut>>

\* A call computeCumulativeDistribution(bets, method): "Not implemented" is
\* thrown for the convolution method.
CallCumulativeDistribution(method) ==
  /\ cdfOut[method].status = "none"
  /\ cdfOut' = [cdfOut EXCEPT ![method] =
                  IF method = "convolution" THEN Thrown
                  ELSE Returned(computeCumulativeDistributionCartesian(bets))]
  /\ UNCHANGED <<bets, pmfOut>>

----------------------------------------------------------------------------
(* calculate.ts: D and findRoot *)

\* Default arguments: D's h = 1e-3, findRoot's iterations = 10, tolerance = 1e-6.
DefaultH == Ratio(1, 1000)
DefaultIterations == 10
DefaultTolerance == Ratio(1, 1000000)

\* A function passed to findRoot: f(x) = a * x + b, or a black box whose values
\* are fixed the first time each point is evaluated (memo).
Linear(a, b) == [kind |-> "linear", a |-> a, b |-> b]
Sampled == [kind |-> "sampled", a |-> 0, b |-> 0]

\* The values a black-box function may take.
SampleVals == {FromInt(-1), Zero, FromInt(1)}

RECURSIVE Apply(_, _, _)

\* D with the difference divided by 4 * h instead of 2 * h.
D_FourH(fd, m, at, h) ==
  LET fPlus == Apply(fd, m, Add(at, h))
      fMinus == Apply(fd, m, Sub(at, h))
  IN Div(Sub(fPlus, fMinus), Mul(FromInt(4), h))

\* D: the central difference (f(x + h) - f(x - h)) / (2 * h).
D(fd, m, at, h) ==
  LET fPlus == Apply(fd, m, Add(at, h))
      fMinus == Apply(fd, m, Sub(at, h))
  IN Div(Sub(fPlus, fMinus), Mul(Two, h))

----------------------------------------------------------------------------
(* calculate.ts: the naive Kelly formula *)

\* The clamp forgetting the upper end.
ClampFraction_NoUpper(fraction) == Max(fraction, Zero)

\* Line 100: Math.min(Math.max(fraction, 0), 1).
ClampFraction(fraction) == Min(Max(fraction, Zero), One)

calculateNaiveKellyFraction(marketProb, estimatedProb, deferenceFactor) ==
  LET outcome == IF Gt(estimatedProb, marketProb) THEN "YES" ELSE "NO"
      fraction ==
        Mul(deferenceFactor,
            Div(Abs(Sub(estimatedProb, marketProb)), Sub(One, marketProb)))
      clampedFraction == ClampFraction(fraction)
  IN [fraction |-> clampedFraction, outcome |-> outcome]

calculateNaiveKellyBet(marketProb, estimatedProb, deferenceFactor, bankroll) ==
  LET r == calculateNaiveKellyFraction(marketProb, estimatedProb, deferenceFactor)
  IN [amount |-> Mul(bankroll, r.fraction), outcome |-> r.outcome]

----------------------------------------------------------------------------
(* calculate.ts: the functions the two optimizers hand to findRoot.  A      *)
(* closure is the record c of the constants it captures:                    *)
(*   kind, estimatedProb, deferenceFactor, bankroll (balance for the        *)
(*   portfolio optimizer), startingMarketProb, outcome, market,             *)
(*   relativeIlliquidEV, illiquidPmf.                                       *)

\* The bet simulator behind getBinaryCpmmBetInfoWrapper, which the optimizers
\* treat as a black box: here a constant-product pool.  The stake is added to
\* both sides of the pool and the bettor takes from the side bet on what restores the
\* product; the YES probability is NO / (YES + NO) = 1 / (1 + YES / NO).
getBinaryCpmmBetInfoWrapper(outcome, betAmount, mkt) ==
  LET own == IF outcome = "YES" THEN mkt.pool.YES ELSE mkt.pool.NO
      other == IF outcome = "YES" THEN mkt.pool.NO ELSE mkt.pool.YES
      newShares == Add(betAmount, Mul(betAmount, Div(own, Add(other, betAmount))))
      newOwn == Sub(Add(own, betAmount), newShares)
      newOther == Add(other, betAmount)
      probAfter ==
        IF outcome = "YES"
        THEN Div(One, Add(One, Div(newOwn, newOther)))
        ELSE Div(One, Add(One, Div(newOther, newOwn)))
  IN [newShares |-> newShares, probAfter |-> probAfter]

\* Lines 204-211 and 298-305.
englishOdds(c, betEstimate) ==
  LET newShares == getBinaryCpmmBetInfoWrapper(c.outcome, betEstimate, c.market).newShares
  IN Div(Sub(newShares, betEstimate), betEstimate)

EnglishOddsOf(c) == [c EXCEPT !.kind = "englishOdds"]

\* Lines 216-221: the probability of winning the bet, deferring to the market.
PWin(c) ==
  LET pYes == Add(Mul(c.estimatedProb, c.deferenceFactor),
                  Mul(Sub(One, c.deferenceFactor), c.startingMarketProb))
      qYes == Sub(One, pYes)
  IN IF c.outcome = "YES" THEN pYes ELSE qYes

\* Lines 230 and 330: the root of A f^2 + B f + C = 0 taken for the fraction.
QuadraticRoot(A, B, C) ==
  IF A = Zero
  THEN Div(Neg(C), B)
  ELSE Div(Add(Neg(B), Sqrt(Sub(Mul(B, B), Mul(Mul(FromInt(4), A), C)))),
           Mul(Two, A))

\* Lines 212-236, and with balance for bankroll lines 312-336.
calcBetEstimate(c, betEstimate) ==
  LET englishOddsEstimate == Apply(EnglishOddsOf(c), <<>>, betEstimate)
      englishOddsDerivative == D(EnglishOddsOf(c), <<>>, betEstimate, Ratio(1, 10))
      pWin == PWin(c)
      qWin == Sub(One, pWin)
      A == Mul(Mul(pWin, c.bankroll), englishOddsDerivative)
      B == Sub(englishOddsEstimate, A)
      C == Neg(Sub(Mul(pWin, englishOddsEstimate), qWin))
      fr == QuadraticRoot(A, B, C)
      newBetEstimate == Mul(fr, c.bankroll)
  IN Sub(newBetEstimate, betEstimate)

\* Lines 346-367.
dEVdBetIlliquidCashedOut(c, betEstimate) ==
  LET englishOddsEstimate == Apply(EnglishOddsOf(c), <<>>, betEstimate)
      englishOddsDerivative == D(EnglishOddsOf(c), <<>>, betEstimate, Ratio(1, 10))
      pWin == PWin(c)
      qWin == Sub(One, pWin)
      fr == Div(betEstimate, c.bankroll)
      I == c.relativeIlliquidEV
      A == Div(Mul(pWin, englishOddsEstimate),
               Add(Add(One, I), Mul(fr, englishOddsEstimate)))
      B == Div(Neg(qWin), Sub(Add(One, I), fr))
      C == Div(Mul(Mul(Mul(pWin, fr), englishOddsDerivative), c.bankroll),
               Add(Add(One, I), Mul(fr, englishOddsEstimate)))
  IN Add(Add(A, B), C)

\* Lines 386-395: the integrand of dEVdBet, e holding the constants it captures.
integrand(e, I) ==
  LET A == Div(Mul(e.pWin, e.englishOddsEstimate),
               Add(Add(One, I), Mul(e.fr, e.englishOddsEstimate)))
      B == Div(Neg(e.qWin), Sub(Add(One, I), e.fr))
      C == Div(Mul(Mul(Mul(e.pWin, e.fr), e.englishOddsDerivative), e.balance),
               Add(Add(One, I), Mul(e.fr, e.englishOddsEstimate)))
  IN Add(Add(A, B), C)

\* integrateOverPmf(integrand, pmf), from the given running result on.
RECURSIVE integrateOverPmf(_, _, _)
integrateOverPmf(e, pmf, result) ==
  IF pmf = <<>> THEN result
  ELSE integrateOverPmf(e, Tail(pmf),
         Add(result, Mul(integrand(e, Head(pmf).key), Head(pmf).val)))

\* Lines 373-399.
dEVdBet(c, betEstimate) ==
  LET englishOddsEstimate == Apply(EnglishOddsOf(c), <<>>, betEstimate)
      englishOddsDerivative == D(EnglishOddsOf(c), <<>>, betEstimate, Ratio(1, 10))
      pWin == PWin(c)
      qWin == Sub(One, pWin)
      fr == Div(betEstimate, c.bankroll)
      e == [pWin |-> pWin, qWin |-> qWin, fr |-> fr, balance |-> c.bankroll,
            englishOddsEstimate |-> englishOddsEstimate,
            englishOddsDerivative |-> englishOddsDerivative]
  IN integrateOverPmf(e, c.illiquidPmf, Zero)

\* Lines 312-336 repeat lines 212-236 with balance for bankroll.
dEVdBetBalanceOnly(c, betEstimate) == calcBetEstimate(c, betEstimate)

\* The count taking a residual for one call of the simulator.
SimulatorCalls_OnePerResidual(fd) ==
  IF fd.kind \in {"englishOdds", "calcBetEstimate", "dEVdBetBalanceOnly",
                  "dEVdBet", "dEVdBetIlliquidCashedOut"}
  THEN 1 ELSE 0

\* How often one evaluation of the function calls the bet simulator: englishOdds
\* once, each residual once through englishOdds and twice through D.
SimulatorCalls(fd) ==
  CASE fd.kind = "englishOdds" -> 1
    [] fd.kind \in {"calcBetEstimate", "dEVdBetBalanceOnly", "dEVdBet",
                    "dEVdBetIlliquidCashedOut"} -> 1 + 2
    [] OTHER -> 0

\* f(pt), where m holds the graph of a black-box f.
Apply(fd, m, pt) ==
  CASE fd.kind = "linear" -> Add(Mul(FromInt(fd.a), pt), FromInt(fd.b))
    [] fd.kind = "sampled" -> m[pt]
    [] fd.kind = "englishOdds" -> englishOdds(fd, pt)
    [] fd.kind = "calcBetEstimate" -> calcBetEstimate(fd, pt)
    [] fd.kind = "dEVdBetBalanceOnly" -> dEVdBetBalanceOnly(fd, pt)
    [] fd.kind = "dEVdBet" -> dEVdBet(fd, pt)
    [] fd.kind = "dEVdBetIlliquidCashedOut" -> dEVdBetIlliquidCashedOut(fd, pt)

\* The graphs that extend m to the points pts: a black-box f may return any
\* value at a point where it was not evaluated before.
Extensions(fd, m, pts) ==
  IF fd.kind = "sampled"
  THEN {m @@ g : g \in [pts \ DOMAIN m -> SampleVals]}
  ELSE {m}

\* findRoot, line 146: the starting point.
Midpoint(lo, hi) == Div(Add(lo, hi), Two)

\* Clamp that forgets the upper bound.
Clamp_LowerOnly(xNext, lo, hi) == IF Lt(xNext, lo) THEN lo ELSE xNext

\* findRoot, lines 155-158: a step outside the bounds is moved to the boundary.
Clamp(xNext, lo, hi) ==
  IF Lt(xNext, lo) \/ Gt(xNext, hi)
  THEN (IF Lt(xNext, lo) THEN lo ELSE hi)
  ELSE xNext

\* The convergence test comparing the signed difference, without Math.abs.
Converged_NoAbs(xNext, at, tolerance) == Lt(Sub(xNext, at), tolerance)

\* findRoot, line 160: the convergence test.
Converged(xNext, at, tolerance) == Lt(Abs(Sub(xNext, at)), tolerance)

\* The call findRoot(fd, lo, hi, n): the frame on entry to the loop.
EnterFindRoot(fd, lo, hi, n) ==
  /\ f' = fd
  /\ lowerBound' = lo
  /\ upperBound' = hi
  /\ iterations' = n
  /\ x' = Midpoint(lo, hi)
  /\ i' = 0
  /\ rpc' = "loop"
  /\ rret' = NaN
  /\ rexit' = "none"
  /\ memo' = <<>>
  /\ steps' = <<>>

\* One iteration of findRoot's loop (lines 148-167).
FindRootIterate ==
  /\ rpc = "loop"
  /\ i < iterations
  /\ \E m \in Extensions(f, memo, {x, Add(x, DefaultH), Sub(x, DefaultH)}) :
     \E fx \in {Apply(f, m, x)} :
     \E dfx \in {D(f, m, x, DefaultH)} :
       LET raw == Sub(x, Div(fx, dfx))
           xNext == Clamp(raw, lowerBound, upperBound)
           step == [x |-> x, fx |-> fx, dfx |-> dfx, raw |-> raw, xNext |-> xNext]
       IN /\ memo' = m
          /\ steps' = Append(steps, step)
          /\ IF Converged(xNext, x, DefaultTolerance)
             THEN /\ rpc' = "done"
                  /\ rret' = xNext
                  /\ rexit' = "converged"
                  /\ UNCHANGED <<x, i>>
             ELSE /\ x' = xNext
                  /\ i' = i + 1
                  /\ UNCHANGED <<rpc, rret, rexit>>
  /\ UNCHANGED <<f, lowerBound, upperBound, iterations>>

\* The loop ends without convergence (line 170): the last estimate is returned.
FindRootExhaust ==
  /\ rpc = "loop"
  /\ i >= iterations
  /\ rpc' = "done"
  /\ rret' = x
  /\ rexit' = "exhausted"
  /\ UNCHANGED <<f, lowerBound, upperBound, iterations, x, i, memo, steps>>

----------------------------------------------------------------------------
(* calculate.ts: the exported functions as processes *)

NotReturned == [status |-> "none"]
Return(value) == [status |-> "returned", value |-> value]

NoBets ==
  [optimalBetInitial |-> Undefined, optimalBet |-> Undefined,
   optimalBetHigh |-> Undefined]

\* No function of calculate.ts has been called.
KellyIdle ==
  /\ call = "none"
  /\ kpc = "done"
  /\ args = <<>>
  /\ market = <<>>
  /\ startingMarketProb = Undefined
  /\ naiveKelly = <<>>
  /\ optimalBets = NoBets
  /\ ret = NotReturned
  /\ simCalls = 0
  /\ rootCalls = 0

\* A function of calculate.ts is entered with the given arguments.
KellyEnter(fn, a, mkt) ==
  /\ call = fn
  /\ kpc = "start"
  /\ args = a
  /\ market = mkt
  /\ startingMarketProb = Undefined
  /\ naiveKelly = <<>>
  /\ optimalBets = NoBets
  /\ ret = NotReturned
  /\ simCalls = 0
  /\ rootCalls = 0

\* The call calculateNaiveKellyFraction(args).
CallNaiveKellyFraction ==
  /\ call = "calculateNaiveKellyFraction"
  /\ kpc = "start"
  /\ ret' = Return(calculateNaiveKellyFraction(
                     args.marketProb, args.estimatedProb, args.deferenceFactor))
  /\ kpc' = "done"
  /\ UNCHANGED <<call, args, market, startingMarketProb, naiveKelly,
                 optimalBets, simCalls, rootCalls>>

\* The call calculateNaiveKellyBet(args).
CallNaiveKellyBet ==
  /\ call = "calculateNaiveKellyBet"
  /\ kpc = "start"
  /\ ret' = Return(calculateNaiveKellyBet(
                     args.marketProb, args.estimatedProb, args.deferenceFactor,
                     args.bankroll))
  /\ kpc' = "done"
  /\ UNCHANGED <<call, args, market, startingMarketProb, naiveKelly,
                 optimalBets, simCalls, rootCalls>>

\* Lines 192 and 286: the recommendation when the market probability is missing.
NoRecommendation == [amount |-> Zero, outcome |-> "YES", shares |-> Zero, pAfter |-> Zero]

\* Lines 273-278: the lump of illiquid holdings of the portfolio optimizer.
illiquidEV == FromInt(1000)
IlliquidBets(relativeIlliquidEV) ==
  << [probability |-> Ratio(1, 2),
      payout |-> Mul(relativeIlliquidEV, Div(One, Ratio(1, 2)))] >>

\* The constants the functions handed to findRoot capture.
Closure(kind, prob, naive) ==
  LET portfolio == call = "calculateFullKellyBetWithPortfolio"
      relativeIlliquidEV ==
        IF portfolio THEN Div(illiquidEV, args.balance) ELSE Undefined
  IN [kind |-> kind,
      estimatedProb |-> args.estimatedProb,
      deferenceFactor |-> args.deferenceFactor,
      bankroll |-> IF portfolio THEN args.balance ELSE args.bankroll,
      startingMarketProb |-> prob,
      outcome |-> naive.outcome,
      market |-> market,
      relativeIlliquidEV |-> relativeIlliquidEV,
      illiquidPmf |->
        IF portfolio
        THEN computePayoutDistribution(IlliquidBets(relativeIlliquidEV), "cartesian")
        ELSE <<>>]

\* calculateFullKellyBet up to its call of findRoot (lines 188-238), or to
\* its early return.
FullKellyStart ==
  /\ call = "calculateFullKellyBet"
  /\ kpc = "start"
  /\ LET prob == market.probability
         naive == calculateNaiveKellyBet(prob, args.estimatedProb,
                                         args.deferenceFactor, args.bankroll)
     IN /\ startingMarketProb' = prob
        /\ IF Falsy(prob)
           THEN /\ ret' = Return(NoRecommendation)
                /\ kpc' = "done"
                /\ UNCHANGED <<naiveKelly, rootCalls, rootVars>>
           ELSE /\ naiveKelly' = naive
                /\ EnterFindRoot(Closure("calcBetEstimate", prob, naive),
                                 Zero, naive.amount, DefaultIterations)
                /\ rootCalls' = rootCalls + 1
                /\ kpc' = "optimalBet"
                /\ UNCHANGED ret
  /\ UNCHANGED <<call, args, market, optimalBets, simCalls>>

\* calculateFullKellyBetWithPortfolio up to its first call of findRoot (lines
\* 273-405), or to its early return.
PortfolioStart ==
  /\ call = "calculateFullKellyBetWithPortfolio"
  /\ kpc = "start"
  /\ LET prob == market.probability
         naive == calculateNaiveKellyBet(prob, args.estimatedProb,
                                         args.deferenceFactor, args.balance)
     IN /\ startingMarketProb' = prob
        /\ IF Falsy(prob)
           THEN /\ ret' = Return(NoRecommendation)
                /\ kpc' = "done"
                /\ UNCHANGED <<naiveKelly, rootCalls, rootVars>>
           ELSE /\ naiveKelly' = naive
                /\ EnterFindRoot(Closure("dEVdBetBalanceOnly", prob, naive),
                                 Zero, naive.amount, DefaultIterations)
                /\ rootCalls' = rootCalls + 1
                /\ kpc' = "optimalBetInitial"
                /\ UNCHANGED ret
  /\ UNCHANGED <<call, args, market, optimalBets, simCalls>>

\* An iteration of findRoot on behalf of an optimizer: f is evaluated once by
\* findRoot and twice by D, and each evaluation calls the simulator.
OptimizerIterate ==
  /\ kpc \in {"optimalBet", "optimalBetInitial", "optimalBetHigh"}
  /\ FindRootIterate
  /\ simCalls' = simCalls + (1 + 2) * SimulatorCalls(f)
  /\ UNCHANGED <<call, kpc, args, market, startingMarketProb, naiveKelly,
                 optimalBets, ret, rootCalls>>

OptimizerExhaust ==
  /\ kpc \in {"optimalBet", "optimalBetInitial", "optimalBetHigh"}
  /\ FindRootExhaust
  /\ UNCHANGED kellyVars

\* The final simulation and the return (lines 240-248 and 420-428).
Recommend(optimalBet) ==
  LET info == getBinaryCpmmBetInfoWrapper(naiveKelly.outcome, optimalBet, market)
  IN [amount |-> optimalBet,
      outcome |-> naiveKelly.outcome,
      shares |-> info.newShares,
      pAfter |-> Coalesce(info.probAfter, Zero)]

\* calculateFullKellyBet from findRoot's return on (lines 238-248).
FullKellyFinish ==
  /\ call = "calculateFullKellyBet"
  /\ kpc = "optimalBet"
  /\ rpc = "done"
  /\ optimalBets' = [optimalBets EXCEPT !.optimalBet = rret]
  /\ simCalls' = simCalls + 1
  /\ ret' = Return(Recommend(rret))
  /\ kpc' = "done"
  /\ UNCHANGED <<call, args, market, startingMarketProb, naiveKelly, rootCalls,
                 rootVars>>

\* Lines 401-410: optimalBetInitial is returned, the root of dEVdBet is sought.
PortfolioSeekBet ==
  /\ call = "calculateFullKellyBetWithPortfolio"
  /\ kpc = "optimalBetInitial"
  /\ rpc = "done"
  /\ optimalBets' = [optimalBets EXCEPT !.optimalBetInitial = rret]
  /\ EnterFindRoot(Closure("dEVdBet", startingMarketProb, naiveKelly),
                   Mul(rret, Ratio(1, 2)), Mul(rret, Two), DefaultIterations)
  /\ rootCalls' = rootCalls + 1
  /\ kpc' = "optimalBet"
  /\ UNCHANGED <<call, args, market, startingMarketProb, naiveKelly, ret, simCalls>>

\* Lines 406-415: optimalBet is returned, the root of dEVdBetIlliquidCashedOut
\* is sought.
PortfolioSeekHigh ==
  /\ call = "calculateFullKellyBetWithPortfolio"
  /\ kpc = "optimalBet"
  /\ rpc = "done"
  /\ optimalBets' = [optimalBets EXCEPT !.optimalBet = rret]
  /\ EnterFindRoot(Closure("dEVdBetIlliquidCashedOut", startingMarketProb, naiveKelly),
                   Mul(optimalBets.optimalBetInitial, Ratio(1, 2)),
                   Mul(optimalBets.optimalBetInitial, Two), DefaultIterations)
  /\ rootCalls' = rootCalls + 1
  /\ kpc' = "optimalBetHigh"
  /\ UNCHANGED <<call, args, market, startingMarketProb, naiveKelly, ret, simCalls>>

\* Lines 411-428: optimalBetHigh is returned; the final simulation, the return.
PortfolioFinish ==
  /\ call = "calculateFullKellyBetWithPortfolio"
  /\ kpc = "optimalBetHigh"
  /\ rpc = "done"
  /\ optimalBets' = [optimalBets EXCEPT !.optimalBetHigh = rret]
  /\ simCalls' = simCalls + 1
  /\ ret' = Return(Recommend(optimalBets.optimalBet))
  /\ kpc' = "done"
  /\ UNCHANGED <<call, args, market, startingMarketProb, naiveKelly, rootCalls,
                 rootVars>>

----------------------------------------------------------------------------
(* findRoot called directly, on linear and on black-box functions. *)

Slopes == {-2, 0, 1, 3}
Intercepts == {-3, 0, 6, 100}
BoundPairs == {<<0, 10>>, <<-5, 5>>, <<2, 4>>, <<3, 3>>}

RootInputs ==
  {[fd |-> Linear(a, b), n |-> n] :
     a \in Slopes, b \in Intercepts, n \in (0..MaxIter) \cup {DefaultIterations}}
  \cup {[fd |-> Sampled, n |-> n] : n \in 0..MaxIter}

InitRoot ==
  \E inp \in RootInputs, bp \in BoundPairs :
    /\ f = inp.fd
    /\ lowerBound = FromInt(bp[1])
    /\ upperBound = FromInt(bp[2])
    /\ iterations = inp.n
    /\ x = Midpoint(FromInt(bp[1]), FromInt(bp[2]))
    /\ i = 0
    /\ rpc = "loop"
    /\ rret = NaN
    /\ rexit = "none"
    /\ memo = <<>>
    /\ steps = <<>>
    /\ PmfIdle
    /\ KellyIdle

NextRoot ==
  \/ FindRootIterate /\ UNCHANGED <<pmfVars, kellyVars>>
  \/ FindRootExhaust /\ UNCHANGED <<pmfVars, kellyVars>>

SpecRoot == InitRoot /\ [][NextRoot]_vars


----------------------------------------------------------------------------
(* Claims about findRoot. *)

InBounds(v) == Le(lowerBound, v) /\ Le(v, upperBound)

\* Some iteration divided 0 by 0: f(x) = 0 and a zero central difference.
ZeroOverZero == \E j \in 1..Len(steps) : steps[j].fx = Zero /\ steps[j].dfx = Zero

\* C1 as stated: for any function f, any bounds lowerBound <= upperBound and
\* any iteration cap, the value findRoot returns lies within
\* [lowerBound, upperBound].
C1_ReturnWithinBounds == rpc = "done" => InBounds(rret)

\* C1 amended: the value findRoot returns for a finite-valued f lies within
\* [lowerBound, upperBound] unless some iteration divided 0 by 0, and then it is
\* NaN; on f(x) = x + 100 over [0, 10] it is always within [0, 10].
C1_WithinBoundsOrNaN ==
  rpc = "done" =>
    /\ InBounds(rret) \/ (IsNaN(rret) /\ ZeroOverZero)
    /\ (f = Linear(1, 100) /\ lowerBound = Zero /\ upperBound = FromInt(10))
         => InBounds(rret)

\* f(x) = x + 100 over [0, 10]: the Newton step left the bounds, was clamped,
\* and the lower bound was returned.
C1_Witness ==
  /\ rpc = "done"
  /\ f = Linear(1, 100)
  /\ lowerBound = Zero
  /\ upperBound = FromInt(10)
  /\ \E j \in 1..Len(steps) : Lt(steps[j].raw, lowerBound)
  /\ rret = Zero

\* The test of line 160 on what iteration j computed.
TestMet(j) ==
  LET d == Sub(steps[j].xNext, steps[j].x)
  IN IsFin(d) /\ AbsInt(d.v) < DefaultTolerance.v

\* What is left to do: the iterations not yet run, and the return.
Variant == (iterations - i) + (IF rpc = "done" THEN 0 ELSE 1)

C9_Shape ==
  /\ i <= iterations
  /\ Len(steps) <= iterations
  /\ \A j \in 1..Len(steps) :
       TestMet(j) => /\ j = Len(steps)
                     /\ rpc = "done"
                     /\ rexit = "converged"
                     /\ rret = steps[j].xNext
  /\ (rpc = "done" /\ \A j \in 1..Len(steps) : ~TestMet(j)) =>
       /\ rexit = "exhausted"
       /\ Len(steps) = iterations
       /\ rret = IF iterations = 0 THEN Midpoint(lowerBound, upperBound)
                 ELSE steps[Len(steps)].xNext
       /\ iterations > 0 => (InBounds(rret) \/ IsNaN(rret))

\* C9: findRoot always terminates: it performs at most `iterations` iterations
\* (every step of the call lowers Variant, which is never negative, and the
\* guards of the two steps cover every state before the return), returns xNext
\* at the first iteration where |xNext - x| < tolerance, and if no iteration
\* meets that test it returns the clamped estimate of the last iteration (the
\* bound midpoint when iterations = 0).
C9_TerminatesWithLastEstimate ==
  [](C9_Shape) /\ [][Variant' < Variant]_vars

\* The cap ran out on a finite estimate, which was returned.
C9_Witness ==
  /\ rpc = "done"
  /\ rexit = "exhausted"
  /\ iterations >= 2
  /\ Len(steps) = iterations
  /\ IsFin(rret)
  /\ rret = steps[Len(steps)].xNext

\* The root -b/a of a linear f lies within the bounds.
LinearRootInBounds ==
  /\ f.kind = "linear"
  /\ f.a # 0
  /\ IF f.a > 0
     THEN f.a * lowerBound.v <= -f.b * Scale /\ -f.b * Scale <= f.a * upperBound.v
     ELSE f.a * upperBound.v <= -f.b * Scale /\ -f.b * Scale <= f.a * lowerBound.v

\* C10: for a linear function with non-zero slope whose root r lies inside
\* [lowerBound, upperBound], findRoot (under a cap of at least 2, as the default
\* 10 is) returns r within 1e-6 through the early-convergence exit after at most
\* 2 iterations; on f(x) = x - 3 over [0, 10] it returns 3.
C10_LinearConvergesInTwo ==
  (rpc = "done" /\ LinearRootInBounds /\ iterations >= 2) =>
    /\ rexit = "converged"
    /\ Len(steps) <= 2
    /\ IsFin(rret)
    /\ AbsInt(f.a * rret.v + f.b * Scale) <= AbsInt(f.a) * DefaultTolerance.v
    /\ (f = Linear(1, -3) /\ lowerBound = Zero /\ upperBound = FromInt(10))
         => rret = FromInt(3)

\* f(x) = x - 3 over [0, 10] under the default cap: 3 is returned by the
\* convergence exit of the second iteration.
C10_Witness ==
  /\ rpc = "done"
  /\ f = Linear(1, -3)
  /\ lowerBound = Zero
  /\ upperBound = FromInt(10)
  /\ iterations = DefaultIterations
  /\ rexit = "converged"
  /\ Len(steps) = 2
  /\ rret = FromInt(3)


----------------------------------------------------------------------------
(* The distribution engine called on every short list of positions. *)

\* Probabilities in tenths, so that every product taken is exact on the grid.
Probabilities == {Ratio(3, 10), One}
Payouts == {FromInt(-4), Zero, FromInt(4)}
Positions == {[probability |-> pr, payout |-> pay] : pr \in Probabilities, pay \in Payouts}

RECURSIVE ListsUpTo(_)
ListsUpTo(n) ==
  IF n = 0 THEN {<<>>}
  ELSE LET shorter == ListsUpTo(n - 1)
       IN shorter \cup {Append(l, e) : l \in {s \in shorter : Len(s) = n - 1}, e \in Positions}

RootIdle ==
  /\ f = Sampled
  /\ lowerBound = Zero
  /\ upperBound = Zero
  /\ iterations = 0
  /\ x = Zero
  /\ i = 0
  /\ rpc = "idle"
  /\ rret = NaN
  /\ rexit = "none"
  /\ memo = <<>>
  /\ steps = <<>>

InitPMF ==
  /\ bets \in ListsUpTo(MaxBets)
  /\ pmfOut = [m \in Methods |-> NoResult]
  /\ cdfOut = [m \in Methods |-> NoResult]
  /\ RootIdle
  /\ KellyIdle

NextPMF ==
  \/ \E method \in Methods :
       CallPayoutDistribution(method) /\ UNCHANGED <<rootVars, kellyVars>>
  \/ \E method \in Methods :
       CallCumulativeDistribution(method) /\ UNCHANGED <<rootVars, kellyVars>>

SpecPMF == InitPMF /\ [][NextPMF]_vars


----------------------------------------------------------------------------
(* Claims about the distribution engine. *)

Entries(m) == {m[j] : j \in 1..Len(m)}

RECURSIVE SumOfMasses(_)
SumOfMasses(m) == IF m = <<>> THEN Zero ELSE Add(Head(m).val, SumOfMasses(Tail(m)))

BothPMFsReturned ==
  pmfOut["cartesian"].status = "ok" /\ pmfOut["convolution"].status = "ok"

NoZeroPayout == \A j \in 1..Len(bets) : bets[j].payout # Zero

\* C4: for every list of positions, computePayoutDistribution(bets, "cartesian")
\* and computePayoutDistribution(bets, "convolution") return the same PMF: the
\* same payout keys with the same mass on every key.
C4_SamePMF ==
  BothPMFsReturned =>
    Entries(pmfOut["cartesian"].map) = Entries(pmfOut["convolution"].map)

\* Where C4 does hold: no position has payout 0.
C4_SamePMFWithoutZeroPayout == NoZeroPayout => C4_SamePMF

\* C5: the masses of the PMF computePayoutDistribution returns sum to 1, under
\* both methods, for the empty list and for positions whose payout is 0 too.
C5_MassesSumToOne ==
  \A method \in Methods :
    pmfOut[method].status = "ok" => SumOfMasses(pmfOut[method].map) = One

\* Where C5 does hold: under the cartesian method, and under the convolution
\* method when no position has payout 0.
C5_MassesSumToOneWithoutZeroPayout ==
  \A method \in Methods :
    (pmfOut[method].status = "ok" /\ (method = "cartesian" \/ NoZeroPayout))
      => SumOfMasses(pmfOut[method].map) = One

\* The probability of position j paying (paid) or not, in tenths.
Tenths(j, paid) ==
  LET t == bets[j].probability.v \div (Scale \div 10)
  IN IF paid THEN t ELSE 10 - t

\* The probability, in units of 10^-n, that exactly the positions in S of the
\* first n pay out; and what those pay in total, in grid units.
RECURSIVE ChanceOf(_, _)
ChanceOf(S, n) == IF n = 0 THEN 1 ELSE Tenths(n, n \in S) * ChanceOf(S, n - 1)

RECURSIVE PaidBy(_, _)
PaidBy(S, n) ==
  IF n = 0 THEN 0
  ELSE (IF n \in S THEN bets[n].payout.v ELSE 0) + PaidBy(S, n - 1)

RECURSIVE TotalChance(_)
TotalChance(SS) ==
  IF SS = {} THEN 0
  ELSE LET S == CHOOSE T \in SS : TRUE
       IN ChanceOf(S, Len(bets)) + TotalChance(SS \ {S})

\* The probability that the total payout is at most key, on the grid.
ChanceAtMost(key) ==
  TotalChance({S \in SUBSET (1..Len(bets)) : PaidBy(S, Len(bets)) <= key.v})
    * (Scale \div 10^Len(bets))

\* C6: the CDF computeCumulativeDistribution returns (cartesian method) is
\* non-decreasing in payout order, its value at the largest payout key is 1,
\* and its value at each key is the total probability of the outcome
\* combinations whose total payout is at most that key.
C6_CDFIsCumulative ==
  cdfOut["cartesian"].status = "ok" =>
    LET cdf == cdfOut["cartesian"].map
    IN /\ Len(cdf) >= 1
       /\ \A j \in 1..(Len(cdf) - 1) :
            /\ Lt(cdf[j].key, cdf[j + 1].key)
            /\ Le(cdf[j].val, cdf[j + 1].val)
       /\ \A j \in 1..Len(cdf) : \A k \in 1..Len(cdf) :
            Lt(cdf[k].key, cdf[j].key) => k < j
       /\ cdf[Len(cdf)].val = One
       /\ \A j \in 1..Len(cdf) :
            /\ IsFin(cdf[j].val)
            /\ cdf[j].val.v = ChanceAtMost(cdf[j].key)

\* A CDF over three payouts, two of them reached by more than one combination
\* of outcomes or carrying a mass strictly between 0 and 1.
C6_Witness ==
  /\ cdfOut["cartesian"].status = "ok"
  /\ Len(bets) = 2
  /\ Len(cdfOut["cartesian"].map) = 3
  /\ Lt(Zero, cdfOut["cartesian"].map[1].val)
  /\ Lt(cdfOut["cartesian"].map[1].val, cdfOut["cartesian"].map[2].val)
  /\ Lt(cdfOut["cartesian"].map[2].val, One)

----------------------------------------------------------------------------
(* The naive Kelly functions called on a grid of tenths. *)

Optimizers == {"calculateFullKellyBet", "calculateFullKellyBetWithPortfolio"}

NaiveFractionInputs ==
  {[marketProb |-> Ratio(pm, 10), estimatedProb |-> Ratio(pe, 10),
    deferenceFactor |-> Ratio(k, 10)] : pm \in 1..9, pe \in 0..10, k \in 0..10}

NaiveBetInputs ==
  {[marketProb |-> a.marketProb, estimatedProb |-> a.estimatedProb,
    deferenceFactor |-> a.deferenceFactor, bankroll |-> FromInt(b)] :
     a \in NaiveFractionInputs, b \in {0, 100}}

InitNaive ==
  /\ \/ \E a \in NaiveFractionInputs : KellyEnter("calculateNaiveKellyFraction", a, <<>>)
     \/ \E a \in NaiveBetInputs : KellyEnter("calculateNaiveKellyBet", a, <<>>)
  /\ RootIdle
  /\ PmfIdle

NextNaive ==
  \/ CallNaiveKellyFraction /\ UNCHANGED <<rootVars, pmfVars>>
  \/ CallNaiveKellyBet /\ UNCHANGED <<rootVars, pmfVars>>

SpecNaive == InitNaive /\ [][NextNaive]_vars

\* The arguments in tenths, and the exact fraction k * |pe - pm| / (1 - pm) as
\* the quotient RawNumerator / RawDenominator of integers.
InTenths(a) == a.v \div (Scale \div 10)
RawNumerator ==
  InTenths(args.deferenceFactor)
    * AbsInt(InTenths(args.estimatedProb) - InTenths(args.marketProb))
RawDenominator == 10 * (10 - InTenths(args.marketProb))

ExpectedOutcome ==
  IF InTenths(args.estimatedProb) > InTenths(args.marketProb) THEN "YES" ELSE "NO"

\* C7: for marketProb in (0,1), estimatedProb in [0,1], deferenceFactor in
\* [0,1], calculateNaiveKellyFraction returns the fraction
\* deferenceFactor * |estimatedProb - marketProb| / (1 - marketProb) clamped
\* into [0,1] (to within one unit of the grid, the rounding of the division and
\* of the product), and the outcome YES exactly when estimatedProb > marketProb;
\* calculateNaiveKellyBet returns the same outcome and an amount in
\* [0, bankroll].
C7_FractionClampedOutcomeBySide ==
  /\ (call = "calculateNaiveKellyFraction" /\ kpc = "done") =>
       LET r == ret.value
       IN /\ IsFin(r.fraction)
          /\ 0 <= r.fraction.v
          /\ r.fraction.v <= Scale
          /\ IF RawNumerator >= RawDenominator
             THEN r.fraction = One
             ELSE AbsInt(r.fraction.v * RawDenominator - RawNumerator * Scale)
                    <= RawDenominator
          /\ r.outcome = ExpectedOutcome
  /\ (call = "calculateNaiveKellyBet" /\ kpc = "done") =>
       LET r == ret.value
       IN /\ IsFin(r.amount)
          /\ 0 <= r.amount.v
          /\ r.amount.v <= args.bankroll.v
          /\ r.outcome = ExpectedOutcome

\* The formula gives more than 1 and the fraction returned is 1, on the NO side.
C7_Witness ==
  /\ call = "calculateNaiveKellyFraction"
  /\ kpc = "done"
  /\ RawNumerator > RawDenominator
  /\ ret.value.fraction = One
  /\ ret.value.outcome = "NO"

----------------------------------------------------------------------------
(* The two optimizers called on a few markets. *)

EstimatedProbs == {Ratio(3, 10), Ratio(1, 2), Ratio(6, 10)}
DeferenceFactors == {Ratio(1, 2), One}

\* A market whose snapshot has no probability, an even pool, and a pool that
\* prices YES at 1/4.
Markets ==
  {[probability |-> Undefined, pool |-> [YES |-> FromInt(100), NO |-> FromInt(100)]],
   [probability |-> Ratio(1, 2), pool |-> [YES |-> FromInt(100), NO |-> FromInt(100)]],
   [probability |-> Ratio(1, 4), pool |-> [YES |-> FromInt(300), NO |-> FromInt(100)]]}

FullKellyInputs ==
  {[estimatedProb |-> pe, deferenceFactor |-> k, bankroll |-> FromInt(100)] :
     pe \in EstimatedProbs, k \in DeferenceFactors}

PortfolioInputs ==
  {[estimatedProb |-> pe, deferenceFactor |-> k, balance |-> FromInt(100),
    portfolioValue |-> FromInt(1100)] :
     pe \in EstimatedProbs, k \in DeferenceFactors}

InitKelly ==
  /\ \E mkt \in Markets :
       \/ \E a \in FullKellyInputs : KellyEnter("calculateFullKellyBet", a, mkt)
       \/ \E a \in PortfolioInputs :
            KellyEnter("calculateFullKellyBetWithPortfolio", a, mkt)
  /\ RootIdle
  /\ PmfIdle

NextKelly ==
  \/ FullKellyStart /\ UNCHANGED pmfVars
  \/ PortfolioStart /\ UNCHANGED pmfVars
  \/ OptimizerIterate /\ UNCHANGED pmfVars
  \/ OptimizerExhaust /\ UNCHANGED pmfVars
  \/ FullKellyFinish /\ UNCHANGED pmfVars
  \/ PortfolioSeekBet /\ UNCHANGED pmfVars
  \/ PortfolioSeekHigh /\ UNCHANGED pmfVars
  \/ PortfolioFinish /\ UNCHANGED pmfVars

SpecKelly == InitKelly /\ [][NextKelly]_vars

MarketProbAvailable == call \in Optimizers /\ market.probability # Undefined
MarketProbUnavailable == call \in Optimizers /\ market.probability = Undefined

\* C8: in both optimizers, when the starting market probability cannot be
\* obtained, the call returns {amount: 0, outcome: YES, shares: 0, pAfter: 0}
\* as a normal result, and neither the bet simulator nor findRoot is ever
\* invoked.
C8_UnavailableProbShortCircuits ==
  MarketProbUnavailable =>
    /\ simCalls = 0
    /\ rootCalls = 0
    /\ rpc = "idle"
    /\ kpc \in {"start", "done"}
    /\ (kpc = "done") =>
         ret = [status |-> "returned",
                value |-> [amount |-> Zero, outcome |-> "YES",
                           shares |-> Zero, pAfter |-> Zero]]

\* The portfolio optimizer has returned for a market without a probability.
C8_Witness ==
  /\ call = "calculateFullKellyBetWithPortfolio"
  /\ market.probability = Undefined
  /\ kpc = "done"
  /\ ret.status = "returned"

NaiveKellyAmount ==
  calculateNaiveKellyBet(
    market.probability, args.estimatedProb, args.deferenceFactor,
    IF call = "calculateFullKellyBet" THEN args.bankroll ELSE args.balance).amount

\* C2: whenever the starting market probability is available, the amount
\* calculateFullKellyBet returns satisfies 0 <= amount <= naiveKellyAmount, the
\* amount of calculateNaiveKellyBet for the same arguments.
C2_AmountWithinNaive ==
  (MarketProbAvailable /\ call = "calculateFullKellyBet" /\ kpc = "done") =>
    /\ Le(Zero, ret.value.amount)
    /\ Le(ret.value.amount, NaiveKellyAmount)

\* What does hold of the amount: it is within the bounds or it is NaN, and it
\* is NaN exactly when the naive amount is 0.
C2_AmountWithinNaiveOrNaN ==
  (MarketProbAvailable /\ call = "calculateFullKellyBet" /\ kpc = "done") =>
    IF NaiveKellyAmount = Zero
    THEN ret.value.amount = NaN
    ELSE Le(Zero, ret.value.amount) /\ Le(ret.value.amount, NaiveKellyAmount)

\* C3: in calculateFullKellyBetWithPortfolio the three roots satisfy
\* optimalBetInitial <= optimalBet <= optimalBetHigh, and optimalBet is the
\* amount returned.
C3_RootsOrdered ==
  (MarketProbAvailable /\ call = "calculateFullKellyBetWithPortfolio"
     /\ kpc = "done") =>
    /\ Le(optimalBets.optimalBetInitial, optimalBets.optimalBet)
    /\ Le(optimalBets.optimalBet, optimalBets.optimalBetHigh)
    /\ ret.value.amount = optimalBets.optimalBet

\* What does hold of the roots: they are ordered when the naive amount is
\* positive, and all three are NaN when it is 0.
C3_RootsOrderedOrNaN ==
  (MarketProbAvailable /\ call = "calculateFullKellyBetWithPortfolio"
     /\ kpc = "done") =>
    /\ ret.value.amount = optimalBets.optimalBet
    /\ IF NaiveKellyAmount = Zero
       THEN optimalBets = [optimalBetInitial |-> NaN, optimalBet |-> NaN,
                           optimalBetHigh |-> NaN]
       ELSE /\ Le(optimalBets.optimalBetInitial, optimalBets.optimalBet)
            /\ Le(optimalBets.optimalBet, optimalBets.optimalBetHigh)

\* The final simulation has been made: the optimizer returned past findRoot.
FinalSimulationDone == kpc = "done" /\ rootCalls > 0

\* C11 as stated: in calculateFullKellyBet one root-find with iteration cap n
\* makes at most 3 * n calls of the bet simulator, and the whole call at most
\* 3 * n + 1.
C11_AtMostThreePerIteration ==
  (call = "calculateFullKellyBet") =>
    /\ simCalls <= 3 * iterations + 1
    /\ ~FinalSimulationDone => simCalls <= 3 * iterations

\* C11 as the code has it: every iteration of findRoot evaluates
\* calcBetEstimate 3 times (once for the Newton step, twice in D), and every
\* evaluation calls the simulator 3 times (once in englishOdds, twice in
\* D(englishOdds, ...)): 9 calls for each iteration made, at most 9 * n for
\* one root-find with cap n and at most 9 * n + 1 for the whole call.
C11_NinePerIteration ==
  (call = "calculateFullKellyBet") =>
    /\ Len(steps) <= iterations
    /\ simCalls = 9 * Len(steps) + (IF FinalSimulationDone THEN 1 ELSE 0)
    /\ simCalls <= 9 * iterations + 1
    /\ ~FinalSimulationDone => simCalls <= 9 * iterations

\* calculateFullKellyBet has returned after a root-find that used its whole
\* cap of 10 iterations: 91 calls of the simulator.
C11_Witness ==
  /\ call = "calculateFullKellyBet"
  /\ kpc = "done"
  /\ iterations = DefaultIterations
  /\ Len(steps) = iterations
  /\ simCalls = 9 * iterations + 1

=============================================================================
